---- MODULE Spec2Model ----
(***************************************************************************)
(* Asana <-> Rocket.Chat bridge: webhook ingestion and room routing.       *)
(*                                                                         *)
(* The repository holds three revisions of AsanaWebhookEndpoint:           *)
(*   - src/unnamed/part_001 : verification against the settings secret,    *)
(*                            one lookup webhook_<resource.gid> per event  *)
(*   - src/unnamed/part_000 : the multi-strategy endpoint (stored secrets, *)
(*                            layered room lookups, auto-created config),  *)
(*                            used with src/asana-integration/commands     *)
(*   - src/README.md        : the endpoint that routes by resource_<id>    *)
(*                            mappings, used with src/commands             *)
(* Each revision is modelled by its own actions over the same persistence  *)
(* store, and has its own specification.                                   *)
(***************************************************************************)
EXTENDS Integers, Sequences, FiniteSets, TLC

VARIABLES store, before, settings, rooms, issued, req, resp, routed, sent, pc, handshakes

vars == <<store, before, settings, rooms, issued, req, resp, routed, sent, pc, handshakes>>

(***************************************************************************)
(* Bounds of the model.                                                    *)
(***************************************************************************)
MaxBatch == 2
MaxRecords == 2
MaxDedupe == 3

(***************************************************************************)
(* Values.  NoVal stands for every falsy JavaScript value the code tests   *)
(* with `if (x)`: undefined, null and ''.                                  *)
(***************************************************************************)
NoVal == ""

Secrets == {"s1", "s2"}
ForeignSecret == "sX"
WebhookIds == {"w1", "w2"}
ProjectIds == {"p1", "p2"}
TaskIds == {"t1"}
SectionIds == {"x1"}
ResourceIds == TaskIds \cup ProjectIds \cup SectionIds
RoomIds == {"R1", "R2"}
GeneralRoom == "GENERAL"
UserIds == {"u1"}
AppUser == "app"
GhostUser == "ghost"

Range(s) == {s[i] : i \in 1..Len(s)}

(***************************************************************************)
(* Persistence (IPersistence / IPersistenceRead of the Apps-Engine).       *)
(* A record is a JavaScript object; a key is an association (model, id),   *)
(* the id written as <<prefix, gid>>.  Every association holds the list of *)
(* the records created under it, oldest first.                             *)
(***************************************************************************)
Undefined == [undefined |-> TRUE]

Defined(r) == "undefined" \notin DOMAIN r

Get(r, f) == IF f \in DOMAIN r THEN r[f] ELSE NoVal

Gids == WebhookIds \cup ResourceIds

MiscKey(prefix, id) == <<"misc", prefix, id>>

UserKey(id) == <<"user", "", id>>

RoomKey(id) == <<"room", "", id>>

MiscPrefixes ==
    {"webhook_", "resource_", "resource_webhook_map_", "asana_webhook_secret_",
     "webhook_token_"}

Keys ==
    {MiscKey(p, g) : p \in MiscPrefixes, g \in Gids}
        \cup {MiscKey("asana_webhook_secret_latest", NoVal),
              MiscKey("asana_webhook_secret", NoVal),
              MiscKey("admin_token", NoVal),
              MiscKey(NoVal, NoVal), RoomKey(NoVal)}
        \cup {UserKey(u) : u \in UserIds \cup {AppUser, GhostUser}}
        \cup {RoomKey(r) : r \in RoomIds \cup {GeneralRoom}}

EmptyStore == [k \in Keys |-> <<>>]

readByAssociation(st, k) == IF k \in DOMAIN st THEN st[k] ELSE <<>>

\* const [x] = await read.getPersistenceReader().readByAssociation(k)
readFirst(st, k) ==
    IF readByAssociation(st, k) = <<>> THEN Undefined
    ELSE Head(readByAssociation(st, k))

createWithAssociation(st, k, data) == [st EXCEPT ![k] = Append(@, data)]

\* Without upsert an update of a missing record stores nothing.
updateByAssociation(st, k, data, upsert) ==
    IF st[k] # <<>> THEN [st EXCEPT ![k] = <<data>> \o Tail(@)]
    ELSE IF upsert THEN [st EXCEPT ![k] = <<data>>]
    ELSE st

removeByAssociation(st, k) == [st EXCEPT ![k] = <<>>]

(***************************************************************************)
(* Webhook requests.  The wire body is the JSON text Asana sent; the       *)
(* endpoint only sees request.content, the parsed object, and signs        *)
(* JSON.stringify(request.content), which is the compact form of the       *)
(* content whatever the form of the wire text was.                         *)
(***************************************************************************)
NoSig == <<>>

Hmac(secret, text) == <<"hmac-sha256", secret, text>>

\* request.content: the wire text parsed, its spelling forgotten
content(body) == [body EXCEPT !.form = "parsed"]

\* JSON.stringify(request.content): the compact spelling of the content
stringify(c) == [c EXCEPT !.form = "compact"]

OtherPayload == [events |-> <<>>, webhook |-> NoVal, form |-> "other"]

\* request.headers['x-hook-signature'] || request.headers['x-asana-request-signature']
signatureOf(r) == IF r.sigHook # NoSig THEN r.sigHook ELSE r.sigAsana

(***************************************************************************)
(* Events of a delivery (InboundEvent): action, resource {gid,             *)
(* resource_type}, user {gid}, parent {gid, resource_type}, webhook {gid}, *)
(* change {field}.  Asana's ground truth: TaskIds are tasks, ProjectIds    *)
(* are projects, and TaskProjects gives the projects of a task.            *)
(***************************************************************************)
Ev(action, gid, rtype, parent, ptype, webhook, field) ==
    [action |-> action, gid |-> gid, rtype |-> rtype, user |-> "u1",
     parent |-> parent, ptype |-> ptype, webhook |-> webhook, field |-> field]

EventPool ==
    {Ev("completed", "t1", "task", NoVal, NoVal, NoVal, NoVal),
     Ev("completed", "p1", "task", NoVal, NoVal, NoVal, NoVal),
     Ev("changed", "t1", "task", "p2", "project", NoVal, "due_on"),
     Ev("changed", "t1", "task", "p2", "project", NoVal, "due_at"),
     Ev("added", "p1", "project", NoVal, NoVal, NoVal, NoVal),
     Ev("added", "t1", "task", "p2", NoVal, NoVal, NoVal),
     Ev("removed", "p2", "section", "p1", "project", NoVal, NoVal),
     Ev("added", "x1", "section", "p2", NoVal, NoVal, NoVal),
     Ev("completed", "t1", "task", NoVal, NoVal, "w1", NoVal)}

Batches == UNION {[1..n -> EventPool] : n \in 0..MaxBatch}

TaskProjects == [t \in TaskIds |-> <<"p1">>]

StoryIds == {}

(***************************************************************************)
(* src/unnamed/part_000: the multi-strategy endpoint.                      *)
(***************************************************************************)
extractWebhookIdFromContent(r) == IF r.hasBody THEN r.body.webhook ELSE NoVal

requestEvents(r) == IF r.hasBody THEN r.body.events ELSE <<>>

\* query.webhook_id and the x-asana-webhook-id header are never sent by Asana
getWebhookIdFromRequest(st, r) ==
    IF extractWebhookIdFromContent(r) # NoVal THEN extractWebhookIdFromContent(r)
    ELSE IF Len(requestEvents(r)) > 0
    THEN LET event == requestEvents(r)[1]
             resourceMap == readFirst(st, MiscKey("resource_webhook_map_", event.gid))
             parentMap == readFirst(st, MiscKey("resource_webhook_map_", event.parent))
         IN  IF event.gid # NoVal /\ Get(resourceMap, "webhookId") # NoVal
             THEN Get(resourceMap, "webhookId")
             ELSE IF event.parent # NoVal /\ Get(parentMap, "webhookId") # NoVal
             THEN Get(parentMap, "webhookId")
             ELSE NoVal
    ELSE NoVal

\* if (x && !secrets.includes(x)) secrets.push(x)
pushSecret(secrets, x) ==
    IF x = NoVal \/ x \in Range(secrets) THEN secrets ELSE Append(secrets, x)

\* records read by a scan whose id field starts with the prefix
idStartsWith(rec, prefix) == Get(rec, "id") # NoVal /\ Get(rec, "id")[1] = prefix

RECURSIVE pushAll(_, _)
pushAll(secrets, recs) ==
    IF recs = <<>> THEN secrets
    ELSE pushAll(pushSecret(secrets, Get(Head(recs), "secret")), Tail(recs))

getAllStoredSecrets_part000(st, cfg, webhookId) ==
    LET one == IF webhookId # NoVal
               THEN pushSecret(<<>>, Get(readFirst(st, MiscKey("asana_webhook_secret_", webhookId)), "secret"))
               ELSE <<>>
        two == pushSecret(one, Get(readFirst(st, MiscKey("asana_webhook_secret_latest", NoVal)), "secret"))
        three == pushAll(two, SelectSeq(readByAssociation(st, MiscKey(NoVal, NoVal)),
                                        LAMBDA rec : idStartsWith(rec, "asana_webhook_secret_")))
        four == pushSecret(three, Get(readFirst(st, MiscKey("asana_webhook_secret", NoVal)), "secret"))
    IN  pushSecret(four, cfg.AsanaWebhookSecret)

\* Lines 221-223 and 227-229: a mismatch and an exception both answer true.
\* JSON.stringify(undefined) is undefined, so a request without a body throws
\* at requestContent.substring once a secret is found.
verifyWebhookSignature_part000(st, cfg, r) ==
    LET webhookId == getWebhookIdFromRequest(st, r)
        signature == signatureOf(r)
        secrets == getAllStoredSecrets_part000(st, cfg, webhookId)
    IN  IF r.hookSecret # NoVal THEN TRUE
        ELSE IF signature = NoSig THEN FALSE
        ELSE IF Len(secrets) = 0 THEN FALSE
        ELSE IF ~r.hasBody THEN TRUE
        ELSE IF \E i \in 1..Len(secrets) :
                    signature = Hmac(secrets[i], stringify(content(r.body)))
        THEN TRUE
        ELSE TRUE

handleWebhookHandshake_part000(st, r) ==
    LET webhookId == extractWebhookIdFromContent(r)
        st1 == IF webhookId # NoVal
               THEN createWithAssociation(st, MiscKey("asana_webhook_secret_", webhookId),
                                          [secret |-> r.hookSecret])
               ELSE st
    IN  createWithAssociation(st1, MiscKey("asana_webhook_secret_latest", NoVal),
                              [secret |-> r.hookSecret])

\* The change field enters the key as it is written.
eventKey_verbatim(event) ==
    (IF event.user # NoVal THEN event.user ELSE "unknown")
        \o ":" \o (IF event.action # NoVal THEN event.action ELSE "unknown")
        \o ":" \o (IF event.gid # NoVal THEN event.gid ELSE "unknown")
        \o (IF event.action = "changed" /\ event.field # NoVal
            THEN ":" \o event.field ELSE "")

\* `${userId}:${action}:${resourceId}${changeField ? ':' + changeField : ''}`,
\* with due_on and due_at both written due_on for a changed event
eventKey(event) ==
    LET userId == IF event.user # NoVal THEN event.user ELSE "unknown"
        action == IF event.action # NoVal THEN event.action ELSE "unknown"
        resourceId == IF event.gid # NoVal THEN event.gid ELSE "unknown"
        changeField == IF action = "changed" /\ event.field # NoVal
                       THEN (IF event.field \in {"due_on", "due_at"} THEN "due_on"
                             ELSE event.field)
                       ELSE NoVal
    IN  userId \o ":" \o action \o ":" \o resourceId
            \o (IF changeField # NoVal THEN ":" \o changeField ELSE "")

\* A repeated key is forgotten instead of kept.
RECURSIVE dedupeFrom_forgetting(_, _, _)
dedupeFrom_forgetting(events, uniqueEvents, uniqueEventKeys) ==
    IF events = <<>> THEN uniqueEvents
    ELSE IF eventKey(Head(events)) \in uniqueEventKeys
    THEN dedupeFrom_forgetting(Tail(events), uniqueEvents,
                               uniqueEventKeys \ {eventKey(Head(events))})
    ELSE dedupeFrom_forgetting(Tail(events), Append(uniqueEvents, Head(events)),
                               uniqueEventKeys \cup {eventKey(Head(events))})

RECURSIVE dedupeFrom(_, _, _)
dedupeFrom(events, uniqueEvents, uniqueEventKeys) ==
    IF events = <<>> THEN uniqueEvents
    ELSE IF eventKey(Head(events)) \in uniqueEventKeys
    THEN dedupeFrom(Tail(events), uniqueEvents, uniqueEventKeys)
    ELSE dedupeFrom(Tail(events), Append(uniqueEvents, Head(events)),
                    uniqueEventKeys \cup {eventKey(Head(events))})

deduplicateEvents(events) ==
    IF Len(events) <= 1 THEN events ELSE dedupeFrom(events, <<>>, {})

\* read.getRoomReader().getById(roomId)
roomExists(rs, roomId) == roomId \in rs

\* src/asana-integration/lib/AsanaOAuth2Service.ts: the user's first USER
\* record, else the app user's first USER record, else null
getAccessTokenForUser_old(st, user) ==
    IF Defined(readFirst(st, UserKey(user))) THEN readFirst(st, UserKey(user))
    ELSE readFirst(st, UserKey(AppUser))

\* The bearer token of the first source that has one; NoVal when the headers
\* carry no Authorization.  getClientToken does not exist and always throws.
getAuthHeaders(st, cfg, webhookId) ==
    LET tokenInfo == getAccessTokenForUser_old(st, AppUser)
        webhookToken == readFirst(st, MiscKey("webhook_token_", webhookId))
        validTokens == SelectSeq(readByAssociation(st, MiscKey(NoVal, NoVal)),
                                 LAMBDA rec : Get(rec, "access_token") # NoVal)
        adminToken == readFirst(st, MiscKey("admin_token", NoVal))
    IN  IF Get(tokenInfo, "access_token") # NoVal THEN tokenInfo.access_token
        ELSE IF webhookId # NoVal /\ Get(webhookToken, "access_token") # NoVal
        THEN webhookToken.access_token
        ELSE IF validTokens # <<>> THEN Head(validTokens).access_token
        ELSE IF Get(adminToken, "access_token") # NoVal THEN adminToken.access_token
        ELSE cfg.asana_api_key

\* GET /tasks/<gid>: 200 only with a token, a reachable API and a task gid
getTaskDetails_part000(st, cfg, taskId, webhookId, api) ==
    IF getAuthHeaders(st, cfg, webhookId) # NoVal /\ api = "ok" /\ taskId \in TaskIds
    THEN [name |-> taskId, projects |-> TaskProjects[taskId]]
    ELSE Undefined

getProjectDetails_part000(st, cfg, projectId, webhookId, api) ==
    IF getAuthHeaders(st, cfg, webhookId) # NoVal /\ api = "ok" /\ projectId \in ProjectIds
    THEN [name |-> projectId]
    ELSE Undefined

Message(room, event, title, text, color) ==
    [room |-> room, event |-> event, title |-> title, text |-> text, color |-> color]

taskText_part000(action) ==
    CASE action = "added" -> <<"new", "created a new task">>
      [] action = "changed" -> <<"arrows", "updated task">>
      [] action = "removed" -> <<"wastebasket", "removed task">>
      [] action = "completed" -> <<"white_check_mark", "completed task">>
      [] OTHER -> <<"memo", "Task was " \o action>>

projectText_part000(action) ==
    CASE action = "added" -> <<"new", "created a new project">>
      [] action = "changed" -> <<"arrows", "updated project">>
      [] action = "removed" -> <<"wastebasket", "removed project">>
      [] OTHER -> <<"memo", "Project was " \o action>>

sectionText_part000(action) ==
    CASE action = "added" -> <<"clipboard", "created a new section in the project">>
      [] action = "changed" -> <<"clipboard", "updated a section in the project">>
      [] action = "removed" -> <<"wastebasket", "removed a section from the project">>
      [] OTHER -> <<"clipboard", "Section was " \o action>>

\* The messages one processEvent call posts: none or one.
processEvent_part000(st, cfg, event, room, api) ==
    IF event.rtype = "task"
    THEN IF Defined(getTaskDetails_part000(st, cfg, event.gid, event.webhook, api))
         THEN <<Message(room, event, event.gid, taskText_part000(event.action), "#FC636B")>>
         ELSE <<>>
    ELSE IF event.rtype = "project"
    THEN IF Defined(getProjectDetails_part000(st, cfg, event.gid, event.webhook, api))
         THEN <<Message(room, event, event.gid, projectText_part000(event.action), "#36a64f")>>
         ELSE <<>>
    ELSE IF event.rtype = "story"
    THEN IF getAuthHeaders(st, cfg, event.webhook) # NoVal /\ api = "ok" /\ event.gid \in StoryIds
         THEN <<Message(room, event, event.gid, <<"speech_balloon", "commented on task">>, "#36C5F0")>>
         ELSE <<>>
    ELSE IF event.rtype = "section"
    THEN <<Message(room, event,
                   IF event.parent # NoVal /\ event.ptype = "project"
                      /\ Defined(getProjectDetails_part000(st, cfg, event.parent, event.webhook, api))
                   THEN event.parent ELSE "Unknown Project",
                   sectionText_part000(event.action), "#36C5F0")>>
    ELSE <<>>

findWebhookConfigByResourceId(st, resourceId) ==
    LET directConfig == readFirst(st, MiscKey("webhook_", resourceId))
        resourceMap == readFirst(st, MiscKey("resource_webhook_map_", resourceId))
        webhookConfig == readFirst(st, MiscKey("webhook_", Get(resourceMap, "webhookId")))
    IN  IF Get(directConfig, "roomId") # NoVal THEN directConfig
        ELSE IF Get(resourceMap, "webhookId") # NoVal /\ Get(webhookConfig, "roomId") # NoVal
        THEN [roomId |-> webhookConfig.roomId, webhookId |-> resourceMap.webhookId]
        ELSE Undefined

\* The scan of the association (MISC, '') for records whose id starts with
\* webhook_ and that carry a roomId.
scanWebhookConfigs(st) ==
    SelectSeq(readByAssociation(st, MiscKey(NoVal, NoVal)),
              LAMBDA rec : Get(rec, "roomId") # NoVal /\ idStartsWith(rec, "webhook_"))

checkIfAnyConfigExists(st) == Len(scanWebhookConfigs(st)) > 0

\* The first record of the association (ROOM, '') whose room exists.
RECURSIVE firstRoomRecord(_, _)
firstRoomRecord(rs, recs) ==
    IF recs = <<>> THEN NoVal
    ELSE IF Get(Head(recs), "roomId") # NoVal /\ roomExists(rs, Head(recs).roomId)
    THEN Head(recs).roomId
    ELSE firstRoomRecord(rs, Tail(recs))

saveWebhookConfig(st, event, roomId) ==
    LET resourceId == IF event.gid # NoVal THEN event.gid
                      ELSE IF event.webhook # NoVal THEN event.webhook ELSE "auto"
    IN  createWithAssociation(st, MiscKey("webhook_", resourceId),
                              [roomId |-> roomId, resourceId |-> resourceId, autoCreated |-> TRUE])

\* The room 'general', else a room of a (ROOM, '') record; the token found is
\* appended to admin_token and the configuration to webhook_<resource id>.
createWebhookConfigIfNeeded(st, cfg, rs, event) ==
    LET targetRoom == IF GeneralRoom \in rs THEN GeneralRoom
                      ELSE firstRoomRecord(rs, readByAssociation(st, RoomKey(NoVal)))
        token == getAuthHeaders(st, cfg, NoVal)
        st1 == IF token # NoVal
               THEN createWithAssociation(st, MiscKey("admin_token", NoVal), [access_token |-> token])
               ELSE st
    IN  IF targetRoom = NoVal THEN [store |-> st, roomId |-> NoVal]
        ELSE [store |-> saveWebhookConfig(st1, event, targetRoom), roomId |-> targetRoom]

\* findAnyProjectWebhookAndProcess: the first scanned webhook_ record whose
\* room exists, else the first (ROOM, '') record whose room exists.
findAnyProjectWebhookAndProcess(st, rs) ==
    IF scanWebhookConfigs(st) # <<>> /\ roomExists(rs, Head(scanWebhookConfigs(st)).roomId)
    THEN Head(scanWebhookConfigs(st)).roomId
    ELSE firstRoomRecord(rs, readByAssociation(st, RoomKey(NoVal)))

\* The room of the first project that has a configuration and an existing room.
RECURSIVE firstProjectRoom(_, _, _)
firstProjectRoom(st, rs, projects) ==
    IF projects = <<>> THEN NoVal
    ELSE LET projectConfig == findWebhookConfigByResourceId(st, Head(projects))
         IN  IF Get(projectConfig, "roomId") # NoVal /\ roomExists(rs, projectConfig.roomId)
             THEN projectConfig.roomId
             ELSE firstProjectRoom(st, rs, Tail(projects))

\* The room findAndProcessProjectWebhook processes the event in, NoVal if none.
findAndProcessProjectWebhook(st, cfg, rs, event, api) ==
    LET webhookConfig == findWebhookConfigByResourceId(st, event.webhook)
        taskDetails == getTaskDetails_part000(st, cfg, event.gid, event.webhook, api)
    IN  IF event.rtype # "task" THEN NoVal
        ELSE IF event.webhook # NoVal /\ Get(webhookConfig, "roomId") # NoVal
                /\ roomExists(rs, webhookConfig.roomId)
        THEN webhookConfig.roomId
        ELSE IF ~Defined(taskDetails) THEN findAnyProjectWebhookAndProcess(st, rs)
        ELSE firstProjectRoom(st, rs, taskDetails.projects)

\* Lines 546-620: the room one event of the per-event loop is processed in.
eventRoom_part000(st, cfg, rs, event, api) ==
    LET resourceConfig == findWebhookConfigByResourceId(st, event.gid)
        parentConfig == findWebhookConfigByResourceId(st, event.parent)
    IN  IF event.gid # NoVal /\ Get(resourceConfig, "roomId") # NoVal
           /\ roomExists(rs, resourceConfig.roomId)
        THEN resourceConfig.roomId
        ELSE IF event.parent # NoVal /\ Get(parentConfig, "roomId") # NoVal
                /\ roomExists(rs, parentConfig.roomId)
        THEN parentConfig.roomId
        ELSE IF scanWebhookConfigs(st) # <<>>
                /\ roomExists(rs, Head(scanWebhookConfigs(st)).roomId)
        THEN Head(scanWebhookConfigs(st)).roomId
        ELSE findAndProcessProjectWebhook(st, cfg, rs, event, api)

\* Lines 421-543: the lookups made for the first event of the batch, in the
\* order the code makes them; each gives the room every event of the batch
\* is processed in, NoVal when it finds none.
batchRooms_part000(st, rs, uniqueEvents) ==
    LET first == uniqueEvents[1]
        webhookConfig == readFirst(st, MiscKey("webhook_", first.webhook))
        resourceConfig == findWebhookConfigByResourceId(st, first.gid)
        parentConfig == findWebhookConfigByResourceId(st, first.parent)
        roomAssociations == readByAssociation(st, RoomKey(NoVal))
    IN  << IF first.webhook # NoVal /\ Get(webhookConfig, "roomId") # NoVal
              /\ roomExists(rs, webhookConfig.roomId)
           THEN webhookConfig.roomId ELSE NoVal,
           IF first.gid # NoVal /\ Get(resourceConfig, "roomId") # NoVal
              /\ roomExists(rs, resourceConfig.roomId)
           THEN resourceConfig.roomId
           ELSE IF first.gid # NoVal /\ first.parent # NoVal
                   /\ Get(parentConfig, "roomId") # NoVal /\ roomExists(rs, parentConfig.roomId)
           THEN parentConfig.roomId ELSE NoVal,
           IF roomAssociations # <<>> /\ Get(Head(roomAssociations), "roomId") # NoVal
              /\ roomExists(rs, Head(roomAssociations).roomId)
           THEN Head(roomAssociations).roomId ELSE NoVal >>

Outcome(st, routedTo, messages) == [store |-> st, routed |-> routedTo, sent |-> messages]

RECURSIVE Concat(_)
Concat(seqs) == IF seqs = <<>> THEN <<>> ELSE Head(seqs) \o Concat(Tail(seqs))

\* creator.finish throws for the events of throws; an event that posts
\* nothing throws nothing.
throwsOn(st, cfg, event, room, api, throws) ==
    event \in throws /\ processEvent_part000(st, cfg, event, room, api) # <<>>

\* The index of the first event whose processEvent throws, Len + 1 if none.
firstThrow(st, cfg, uniqueEvents, room, api, throws) ==
    LET thrown == {i \in 1..Len(uniqueEvents) :
                      throwsOn(st, cfg, uniqueEvents[i], room, api, throws)}
    IN  IF thrown = {} THEN Len(uniqueEvents) + 1
        ELSE CHOOSE i \in thrown : \A k \in thrown : i <= k

\* for (const event of uniqueEvents) await this.processEvent(event, room, ...)
\* The loop has no try of its own: it ends at the first event that throws.
processAll_part000(st, cfg, uniqueEvents, room, api, throws) ==
    LET k == firstThrow(st, cfg, uniqueEvents, room, api, throws)
        called == IF k <= Len(uniqueEvents) THEN k ELSE Len(uniqueEvents)
    IN  Outcome(st,
                [i \in 1..called |-> [event |-> uniqueEvents[i], room |-> room]],
                Concat([i \in 1..(k - 1) |->
                            processEvent_part000(st, cfg, uniqueEvents[i], room, api)]))

\* The per-event loop: each event goes to its own room or nowhere; the try
\* inside the loop keeps a throw to its event.
processEach_part000(st, cfg, rs, uniqueEvents, api, throws) ==
    LET roomOf == [i \in 1..Len(uniqueEvents) |->
                       eventRoom_part000(st, cfg, rs, uniqueEvents[i], api)]
    IN  Outcome(st,
                Concat([i \in 1..Len(uniqueEvents) |->
                            IF roomOf[i] = NoVal THEN <<>>
                            ELSE <<[event |-> uniqueEvents[i], room |-> roomOf[i]]>>]),
                Concat([i \in 1..Len(uniqueEvents) |->
                            IF roomOf[i] = NoVal
                               \/ throwsOn(st, cfg, uniqueEvents[i], roomOf[i], api, throws)
                            THEN <<>>
                            ELSE processEvent_part000(st, cfg, uniqueEvents[i], roomOf[i], api)]))

\* The lookups one after the other: a lookup that found a room and processed
\* the batch without a throw returns; a throw is caught and logged and the
\* next lookup runs; after the last one the per-event loop runs.
RECURSIVE processFrom_part000(_, _, _, _, _, _, _)
processFrom_part000(st, cfg, rs, uniqueEvents, api, throws, roomIds) ==
    IF roomIds = <<>> THEN processEach_part000(st, cfg, rs, uniqueEvents, api, throws)
    ELSE IF Head(roomIds) = NoVal
    THEN processFrom_part000(st, cfg, rs, uniqueEvents, api, throws, Tail(roomIds))
    ELSE LET out == processAll_part000(st, cfg, uniqueEvents, Head(roomIds), api, throws)
             rest == processFrom_part000(st, cfg, rs, uniqueEvents, api, throws, Tail(roomIds))
         IN  IF firstThrow(st, cfg, uniqueEvents, Head(roomIds), api, throws) > Len(uniqueEvents)
             THEN out
             ELSE Outcome(st, out.routed \o rest.routed, out.sent \o rest.sent)

processEvents_part000(st, cfg, rs, events, api, throws) ==
    LET uniqueEvents == deduplicateEvents(events)
        auto == IF checkIfAnyConfigExists(st) THEN [store |-> st, roomId |-> NoVal]
                ELSE createWebhookConfigIfNeeded(st, cfg, rs, uniqueEvents[1])
        autoRoom == IF auto.roomId # NoVal /\ roomExists(rs, auto.roomId)
                    THEN auto.roomId ELSE NoVal
    IN  IF Len(uniqueEvents) = 0 THEN Outcome(st, <<>>, <<>>)
        ELSE processFrom_part000(auto.store, cfg, rs, uniqueEvents, api, throws,
                 <<autoRoom>> \o batchRooms_part000(auto.store, rs, uniqueEvents))

Response(status, header, error) == [status |-> status, header |-> header, error |-> error]

NoResponse == Response(0, NoVal, NoVal)

\* sendNotification: the text shown to the sender of a command; it is no
\* HTTP answer and carries no status.
Notification(text) == Response(0, NoVal, text)

\* Every list a request appends to stays within MaxRecords records.
WithinBound(old, new) ==
    \A k \in DOMAIN new : Len(new[k]) > Len(old[k]) => Len(new[k]) <= MaxRecords

\* post of src/unnamed/part_000: the handshake, else the verification, else
\* the events.
post_part000(r) ==
    /\ pc = "idle"
    /\ LET out == IF r.hookSecret # NoVal
                  THEN Outcome(handleWebhookHandshake_part000(store, r), <<>>, <<>>)
                  ELSE IF ~verifyWebhookSignature_part000(store, settings, r)
                  THEN Outcome(store, <<>>, <<>>)
                  ELSE IF Len(requestEvents(r)) > 0
                  THEN processEvents_part000(store, settings, rooms, requestEvents(r), r.api, r.throws)
                  ELSE Outcome(store, <<>>, <<>>)
       IN  /\ WithinBound(store, out.store)
           /\ store' = out.store
           /\ routed' = out.routed
           /\ sent' = out.sent
    /\ resp' = IF r.hookSecret # NoVal THEN Response(200, r.hookSecret, NoVal)
               ELSE IF ~verifyWebhookSignature_part000(store, settings, r)
               THEN Response(401, NoVal, "Invalid webhook signature")
               ELSE Response(200, NoVal, NoVal)
    /\ req' = r
    /\ before' = store
    /\ pc' = "responded"
    /\ UNCHANGED <<settings, rooms, handshakes, issued>>

\* The response is returned; nothing is in flight until the next request.
finish ==
    /\ pc = "responded"
    /\ pc' = "idle"
    /\ req' = [hookSecret |-> NoVal, sigHook |-> NoSig, sigAsana |-> NoSig, hasBody |-> FALSE,
               body |-> [events |-> <<>>, webhook |-> NoVal, form |-> "compact"], api |-> "down",
               throws |-> {}]
    /\ resp' = NoResponse
    /\ routed' = <<>>
    /\ sent' = <<>>
    /\ before' = store
    /\ UNCHANGED <<store, settings, rooms, handshakes, issued>>

(***************************************************************************)
(* src/asana-integration: the OAuth callback and the webhook commands used *)
(* with the multi-strategy endpoint.                                       *)
(***************************************************************************)
\* handleOAuthCallback: a 200 answer of the token endpoint is upserted under
\* the user; any other answer stores nothing.
handleOAuthCallback_old(user, token, tokenOk) ==
    /\ pc = "idle"
    /\ store' = IF tokenOk
                THEN updateByAssociation(store, UserKey(user), [access_token |-> token], TRUE)
                ELSE store
    /\ before' = store
    /\ UNCHANGED <<settings, rooms, handshakes, issued, req, resp, routed, sent, pc>>

\* /asana webhook create <resource_id>, run by sender in room
createWebhook_old(sender, room, resourceId, created) ==
    /\ pc = "idle"
    /\ LET tokenInfo == getAccessTokenForUser_old(store, sender)
           accessToken == Get(tokenInfo, "access_token")
           gid == CHOOSE w \in WebhookIds \ issued : TRUE
           webhookData == [webhookId |-> gid, resourceId |-> resourceId,
                           createdBy |-> sender, roomId |-> room]
           st1 == createWithAssociation(store, MiscKey("webhook_", gid), webhookData)
           st2 == createWithAssociation(st1, UserKey(sender), webhookData)
           st3 == createWithAssociation(st2, RoomKey(room), webhookData)
           st4 == updateByAssociation(st3, MiscKey("admin_token", NoVal),
                                      [access_token |-> accessToken], FALSE)
           st5 == createWithAssociation(st4, MiscKey("webhook_token_", gid),
                                        [access_token |-> accessToken])
           st6 == createWithAssociation(st5, MiscKey("resource_webhook_map_", resourceId),
                                        [webhookId |-> gid])
       IN  IF Defined(tokenInfo) /\ resourceId \in ProjectIds /\ created
              /\ WebhookIds \ issued # {}
           THEN store' = st6 /\ issued' = issued \cup {gid}
           ELSE UNCHANGED <<store, issued>>
    /\ before' = store
    /\ UNCHANGED <<settings, rooms, handshakes, req, resp, routed, sent, pc>>

\* /asana webhook delete <webhook_id>
deleteWebhook_old(sender, webhookId, success) ==
    /\ pc = "idle"
    /\ IF ~Defined(getAccessTokenForUser_old(store, sender))
       THEN /\ store' = store
            /\ resp' = Notification("You have not authorized Asana yet")
       ELSE IF ~success
       THEN /\ store' = store
            /\ resp' = Notification("Failed to delete webhook " \o webhookId)
       ELSE /\ store' = removeByAssociation(store, MiscKey("webhook_", webhookId))
            /\ resp' = Notification("Webhook " \o webhookId \o " deleted successfully")
    /\ pc' = "responded"
    /\ before' = store
    /\ UNCHANGED <<settings, rooms, handshakes, issued, req, routed, sent>>

\* /asana logout: every record under the sender's association is removed.
logoutCommand(sender) ==
    /\ pc = "idle"
    /\ store' = IF Defined(readFirst(store, UserKey(sender)))
                THEN removeByAssociation(store, UserKey(sender))
                ELSE store
    /\ before' = store
    /\ UNCHANGED <<settings, rooms, handshakes, issued, req, resp, routed, sent, pc>>

\* The handshake requests in flight: each is idle or has written some of
\* its records for its secret.
HandshakeIds == {1, 2}

Idle == [secret |-> NoVal, step |-> "idle"]

NoHandshakes == [h \in HandshakeIds |-> Idle]

(***************************************************************************)
(* Requests.                                                               *)
(***************************************************************************)
Request(hookSecret, sigHook, sigAsana, hasBody, body, api) ==
    [hookSecret |-> hookSecret, sigHook |-> sigHook, sigAsana |-> sigAsana,
     hasBody |-> hasBody, body |-> body, api |-> api, throws |-> {}]

\* The request r handled while posting a message of the events T throws.
Throwing(r, T) == [r EXCEPT !.throws = T]

Body(events, webhook, form) == [events |-> events, webhook |-> webhook, form |-> form]

\* The handshake POST of Asana: X-Hook-Secret and no events.
HandshakeRequests(secrets, webhookIds) ==
    {Request(s, NoSig, NoSig, TRUE, Body(<<>>, w, "compact"), "ok") :
        s \in secrets, w \in webhookIds}

\* What a sender may put in a signature header for a body: nothing, an HMAC
\* of the wire text or of its compact re-encoding under a secret Asana issued
\* or a foreign one, or an HMAC of another payload.
SignaturesFor(body) ==
    {NoSig}
        \cup {Hmac(k, body) : k \in Secrets \cup {ForeignSecret}}
        \cup {Hmac(k, stringify(content(body))) : k \in Secrets}
        \cup {Hmac(k, OtherPayload) : k \in Secrets}

ProbeBodies ==
    {Body(ev, NoVal, f) :
        ev \in {<<>>, <<Ev("completed", "t1", "task", NoVal, NoVal, NoVal, NoVal)>>},
        f \in {"compact", "spaced"}}

\* Deliveries that probe the verification: every signature, in either
\* header, with and without a body.
ProbeRequests ==
    UNION {{Request(NoVal, sig, NoSig, TRUE, b, "ok") : sig \in SignaturesFor(b)} :
               b \in ProbeBodies}
        \cup {Request(NoVal, NoSig, Hmac(k, b), TRUE, b, "ok") : k \in Secrets, b \in ProbeBodies}
        \cup {Request(NoVal, Hmac(k, OtherPayload), NoSig, FALSE, Body(<<>>, NoVal, "compact"), "ok") :
                  k \in Secrets}

\* Deliveries of Asana: a batch of events signed under secret k.
DeliveryRequests(k) ==
    {Request(NoVal, Hmac(k, Body(ev, NoVal, "compact")), NoSig, TRUE,
             Body(ev, NoVal, "compact"), api) :
        ev \in Batches \ {<<>>}, api \in {"ok", "down"}}

(***************************************************************************)
(* The multi-strategy endpoint: handshakes and verification.               *)
(***************************************************************************)
NoRequest ==
    Request(NoVal, NoSig, NoSig, FALSE, Body(<<>>, NoVal, "compact"), "down")

Settings(secret, apiKey) == [AsanaWebhookSecret |-> secret, asana_api_key |-> apiKey]

InitWith(st, cfgs, roomSets) ==
    /\ store = st
    /\ before = st
    /\ settings \in cfgs
    /\ rooms \in roomSets
    /\ issued = {}
    /\ handshakes = NoHandshakes
    /\ req = NoRequest
    /\ resp = NoResponse
    /\ routed = <<>>
    /\ sent = <<>>
    /\ pc = "idle"

InitMultiVerify ==
    InitWith(EmptyStore, {Settings(NoVal, NoVal), Settings(NoVal, "tokA")},
             {RoomIds, RoomIds \cup {GeneralRoom}})

NextMultiVerify ==
    \/ \E r \in HandshakeRequests(Secrets, {NoVal, "w1"}) \cup ProbeRequests : post_part000(r)
    \/ finish

SpecMultiVerify == InitMultiVerify /\ [][NextMultiVerify]_vars

(***************************************************************************)
(* The multi-strategy endpoint: routing of signed deliveries.              *)
(***************************************************************************)
\* The store after the handshake of secret s1.
HandshakenStore ==
    handleWebhookHandshake_part000(EmptyStore,
        Request("s1", NoSig, NoSig, TRUE, Body(<<>>, NoVal, "compact"), "ok"))

InitMultiStrategy ==
    InitWith(HandshakenStore, {Settings(NoVal, NoVal)}, {RoomIds})

NextMultiStrategy ==
    \/ \E r \in DeliveryRequests("s1") : post_part000(r)
    \/ finish
    \/ \E ok \in BOOLEAN : handleOAuthCallback_old("u1", "tokU", ok)
    \/ \E room \in RoomIds, rid \in ResourceIds, ok \in BOOLEAN :
           createWebhook_old("u1", room, rid, ok)
    \/ \E w \in WebhookIds, ok \in BOOLEAN : deleteWebhook_old("u1", w, ok)
    \/ logoutCommand("u1")

SpecMultiStrategy == InitMultiStrategy /\ [][NextMultiStrategy]_vars

(***************************************************************************)
(* src/unnamed/part_001: the endpoint that verifies against the secret of  *)
(* the app settings and looks up webhook_<resource.gid> for every event.   *)
(***************************************************************************)
verifyWebhookSignature_part001(cfg, r) ==
    IF cfg.AsanaWebhookSecret = NoVal THEN FALSE
    ELSE IF r.sigHook = NoSig THEN FALSE
    ELSE IF ~r.hasBody THEN FALSE
    ELSE r.sigHook = Hmac(cfg.AsanaWebhookSecret, stringify(content(r.body)))

getTaskDetails_part001(st, taskId, api) ==
    IF Get(readFirst(st, MiscKey("admin_token", NoVal)), "access_token") # NoVal
       /\ api = "ok" /\ taskId \in TaskIds
    THEN [name |-> taskId, projects |-> TaskProjects[taskId]]
    ELSE Undefined

processEvent_part001(st, event, room, api) ==
    IF event.rtype = "task" /\ Defined(getTaskDetails_part001(st, event.gid, api))
    THEN <<Message(room, event, event.gid, taskText_part000(event.action), "#FC636B")>>
    ELSE <<>>

\* The room of webhook_<event.resource.gid>, NoVal without a record or a room.
eventRoom_part001(st, rs, event) ==
    LET webhookConfig == readFirst(st, MiscKey("webhook_", event.gid))
    IN  IF Get(webhookConfig, "roomId") # NoVal /\ roomExists(rs, webhookConfig.roomId)
        THEN webhookConfig.roomId
        ELSE NoVal

processEvents_part001(st, rs, events, api) ==
    LET roomOf == [i \in 1..Len(events) |-> eventRoom_part001(st, rs, events[i])]
    IN  Outcome(st,
                Concat([i \in 1..Len(events) |->
                            IF roomOf[i] = NoVal THEN <<>>
                            ELSE <<[event |-> events[i], room |-> roomOf[i]]>>]),
                Concat([i \in 1..Len(events) |->
                            IF roomOf[i] = NoVal THEN <<>>
                            ELSE processEvent_part001(st, events[i], roomOf[i], api)]))

\* post of src/unnamed/part_001: the verification first, then the handshake
\* key of a body without events, then the events.
post_part001(r) ==
    /\ pc = "idle"
    /\ LET isValid == verifyWebhookSignature_part001(settings, r)
           out == IF isValid /\ Len(requestEvents(r)) > 0
                  THEN processEvents_part001(store, rooms, requestEvents(r), r.api)
                  ELSE Outcome(store, <<>>, <<>>)
       IN  /\ store' = out.store
           /\ routed' = out.routed
           /\ sent' = out.sent
           /\ resp' = IF ~isValid THEN Response(401, NoVal, "Invalid webhook signature")
                      ELSE Response(200, NoVal, NoVal)
    /\ req' = r
    /\ before' = store
    /\ pc' = "responded"
    /\ UNCHANGED <<settings, rooms, handshakes, issued>>

\* The store the multi-strategy endpoint leaves after it configured the room
\* general for task t1 with the token of the settings.
AutoConfiguredStore ==
    createWebhookConfigIfNeeded(EmptyStore, Settings(NoVal, "tokA"), {GeneralRoom},
                                Ev("completed", "t1", "task", NoVal, NoVal, NoVal, NoVal)).store

InitSettings ==
    /\ store \in {EmptyStore, AutoConfiguredStore}
    /\ before = store
    /\ settings \in {Settings(NoVal, NoVal), Settings("s1", NoVal), Settings("s2", NoVal)}
    /\ rooms = RoomIds \cup {GeneralRoom}
    /\ issued = {}
    /\ handshakes = NoHandshakes
    /\ req = NoRequest
    /\ resp = NoResponse
    /\ routed = <<>>
    /\ sent = <<>>
    /\ pc = "idle"

NextSettings ==
    \/ \E r \in ProbeRequests \cup HandshakeRequests(Secrets, {NoVal}) : post_part001(r)
    \/ finish

SpecSettings == InitSettings /\ [][NextSettings]_vars

(***************************************************************************)
(* src/README.md: the endpoint that routes by resource_<project id>        *)
(* mappings, with the OAuth callback and the commands of src/commands.     *)
(***************************************************************************)
\* src/asana-integration/lib/AsanaApiService.ts: the user's first USER record
getAccessTokenForUser_new(st, user) == readFirst(st, UserKey(user))

getAllStoredSecrets_README(st) ==
    pushSecret(<<>>, Get(readFirst(st, MiscKey("asana_webhook_secret_latest", NoVal)), "secret"))

\* A mismatch and an exception both answer false.
verifyWebhookSignature_README(st, r) ==
    LET signature == signatureOf(r)
        secrets == getAllStoredSecrets_README(st)
    IN  IF r.hookSecret # NoVal THEN TRUE
        ELSE IF signature = NoSig THEN FALSE
        ELSE IF Len(secrets) = 0 THEN FALSE
        ELSE IF ~r.hasBody THEN FALSE
        ELSE \E i \in 1..Len(secrets) :
                 signature = Hmac(secrets[i], stringify(content(r.body)))

\* updateByAssociation without upsert, for the latest and the legacy key
handleWebhookHandshake_README(st, r) ==
    updateByAssociation(
        updateByAssociation(st, MiscKey("asana_webhook_secret_latest", NoVal),
                            [secret |-> r.hookSecret], FALSE),
        MiscKey("asana_webhook_secret", NoVal), [secret |-> r.hookSecret], FALSE)

getWebhookMappingByResourceId(st, resourceId) == readFirst(st, MiscKey("resource_", resourceId))

\* GET /tasks/<gid> through the API service: null on any answer but 200
getTaskById(accessToken, taskId, api) ==
    IF accessToken # NoVal /\ api = "ok" /\ taskId \in TaskIds
    THEN [name |-> taskId, projects |-> TaskProjects[taskId]]
    ELSE Undefined

\* projectIds.add(id) for every id of ids, in order
RECURSIVE addAll(_, _)
addAll(projectIds, ids) ==
    IF ids = <<>> THEN projectIds
    ELSE addAll(IF Head(ids) \in Range(projectIds) THEN projectIds
                ELSE Append(projectIds, Head(ids)), Tail(ids))

\* Lines 703-799: the parents that are projects, then the projects of the
\* task events the API returns, then the project events' own ids.
collectProjectIds(uniqueEvents, accessToken, api) ==
    LET n == Len(uniqueEvents)
        fromParents == Concat([i \in 1..n |->
            IF uniqueEvents[i].parent # NoVal /\ uniqueEvents[i].ptype = "project"
            THEN <<uniqueEvents[i].parent>> ELSE <<>>])
        fromTasks == Concat([i \in 1..n |->
            IF uniqueEvents[i].rtype = "task" /\ uniqueEvents[i].gid # NoVal
               /\ Defined(getTaskById(accessToken, uniqueEvents[i].gid, api))
            THEN getTaskById(accessToken, uniqueEvents[i].gid, api).projects ELSE <<>>])
        fromProjects == Concat([i \in 1..n |->
            IF uniqueEvents[i].rtype = "project" /\ uniqueEvents[i].gid # NoVal
            THEN <<uniqueEvents[i].gid>> ELSE <<>>])
    IN  addAll(addAll(addAll(<<>>, fromParents), fromTasks), fromProjects)

getActionText(action) ==
    CASE action = "added" -> "created"
      [] action = "changed" -> "updated"
      [] action = "removed" -> "deleted"
      [] OTHER -> action

titleOf_README(event) ==
    CASE event.rtype = "task" -> <<"clipboard", "Asana Task", getActionText(event.action)>>
      [] event.rtype = "project" -> <<"bar_chart", "Asana Project", getActionText(event.action)>>
      [] event.rtype = "story" -> <<"speech_balloon", "Asana Comment", "Added">>
      [] event.rtype = "section" -> <<"bookmark_tabs", "Asana Section", getActionText(event.action)>>
      [] OTHER -> <<"bell", "Asana Notification", event.action>>

formatTaskEvent(action) ==
    [color |-> IF action = "completed" THEN "#36a64f"
               ELSE IF action = "changed" THEN "#2196F3" ELSE "#FC636B",
     text |-> CASE action = "added" -> <<"new", "created a new task">>
                [] action = "changed" -> <<"arrows", "updated the task">>
                [] action = "removed" -> <<"wastebasket", "deleted the task">>
                [] action = "completed" -> <<"white_check_mark", "completed the task">>
                [] OTHER -> <<"clipboard", "task was " \o action>>]

formatProjectEvent(action) ==
    [color |-> IF action \in {"removed", "deleted"} THEN "#FC636B"
               ELSE IF action = "changed" THEN "#2196F3" ELSE "#36a64f",
     text |-> CASE action = "added" -> <<"new", "created a new project">>
                [] action = "changed" -> <<"arrows", "updated the project">>
                [] action = "removed" -> <<"wastebasket", "deleted the project">>
                [] OTHER -> <<"bar_chart", "the project was " \o action>>]

formatSectionEvent(action) ==
    [color |-> IF action \in {"removed", "deleted"} THEN "#FC636B"
               ELSE IF action = "changed" THEN "#2196F3" ELSE "#9966CC",
     text |-> CASE action = "added" -> <<"clipboard", "created a new section in the project">>
                [] action = "changed" -> <<"clipboard", "updated the section in the project">>
                [] action = "removed" -> <<"wastebasket", "deleted the section from the project">>
                [] OTHER -> <<"clipboard", "the section was " \o action>>]

formatEventMessage(event) ==
    CASE event.rtype = "task" -> formatTaskEvent(event.action)
      [] event.rtype = "project" -> formatProjectEvent(event.action)
      [] event.rtype = "section" -> formatSectionEvent(event.action)
      [] event.rtype = "story" -> [color |-> "#36C5F0", text |-> <<"speech_balloon", "commented">>]
      [] OTHER -> [color |-> "#FF0000", text |-> <<NoVal, "not supported">>]

\* One message per call: the title line and the attachment of the formatter.
processEvent_README(event, room) ==
    <<Message(room, event, titleOf_README(event), formatEventMessage(event).text,
              formatEventMessage(event).color)>>

alreadyProcessed_never(processedRooms, roomId) == FALSE

\* README lines 827-829: the room already received this batch
alreadyProcessed(processedRooms, roomId) == roomId \in processedRooms

\* The loop over projectIds: every unique event goes to the room of each
\* project's mapping, once per room.
RECURSIVE deliverToProjects(_, _, _, _, _)
deliverToProjects(st, rs, uniqueEvents, projectIds, processedRooms) ==
    IF projectIds = <<>> THEN <<>>
    ELSE LET mapping == getWebhookMappingByResourceId(st, Head(projectIds))
             roomId == Get(mapping, "roomId")
         IN  IF roomId = NoVal \/ alreadyProcessed(Range(processedRooms), roomId)
                \/ ~roomExists(rs, roomId)
             THEN deliverToProjects(st, rs, uniqueEvents, Tail(projectIds), processedRooms)
             ELSE <<roomId>> \o deliverToProjects(st, rs, uniqueEvents, Tail(projectIds),
                                                  Append(processedRooms, roomId))

processEvents_README(st, rs, events, api, throws) ==
    LET uniqueEvents == deduplicateEvents(events)
        accessToken == Get(getAccessTokenForUser_new(st, AppUser), "access_token")
        projectIds == collectProjectIds(uniqueEvents, accessToken, api)
        roomIds == deliverToProjects(st, rs, uniqueEvents, projectIds, <<>>)
    IN  Outcome(st,
                Concat([i \in 1..Len(roomIds) |->
                    [j \in 1..Len(uniqueEvents) |->
                        [event |-> uniqueEvents[j], room |-> roomIds[i]]]]),
                Concat([i \in 1..Len(roomIds) |->
                    Concat([j \in 1..Len(uniqueEvents) |->
                        IF uniqueEvents[j] \in throws THEN <<>>
                        ELSE processEvent_README(uniqueEvents[j], roomIds[i])])]))

post_README(r) ==
    /\ pc = "idle"
    /\ LET out == IF r.hookSecret # NoVal
                  THEN Outcome(handleWebhookHandshake_README(store, r), <<>>, <<>>)
                  ELSE IF ~verifyWebhookSignature_README(store, r)
                  THEN Outcome(store, <<>>, <<>>)
                  ELSE IF Len(requestEvents(r)) > 0
                  THEN processEvents_README(store, rooms, requestEvents(r), r.api, r.throws)
                  ELSE Outcome(store, <<>>, <<>>)
       IN  /\ store' = out.store
           /\ routed' = out.routed
           /\ sent' = out.sent
    /\ resp' = IF r.hookSecret # NoVal THEN Response(200, r.hookSecret, NoVal)
               ELSE IF ~verifyWebhookSignature_README(store, r)
               THEN Response(401, NoVal, "Invalid webhook signature")
               ELSE Response(200, NoVal, NoVal)
    /\ req' = r
    /\ before' = store
    /\ pc' = "responded"
    /\ UNCHANGED <<settings, rooms, handshakes, issued>>

\* The state parameter as state.split('_') sees it: <<>> when absent.
OAuthStates ==
    {<<>>}
        \cup {<<u, "rnd">> : u \in UserIds \cup {GhostUser}}
        \cup {<<u, rm, "rnd">> : u \in UserIds \cup {GhostUser}, rm \in {"R1", "R0"}}

\* findUserByState: the user of the first part, else the app user
findUserByState(state) ==
    IF state # <<>> /\ state[1] \in UserIds THEN state[1] ELSE AppUser

\* handleOAuthCallback of the service: a 200 answer is upserted under the
\* user and, when the first part of the state is another id, under that id
\* too; any other answer stores nothing and returns false.
handleOAuthCallback_new(st, user, state, tokenOk) ==
    LET tokenData == [access_token |-> "tokU"]
        st1 == updateByAssociation(st, UserKey(user), tokenData, TRUE)
        st2 == IF Len(state) > 1 /\ state[1] # user
               THEN updateByAssociation(st1, UserKey(state[1]), tokenData, TRUE)
               ELSE st1
    IN  IF tokenOk THEN [store |-> st2, success |-> TRUE]
        ELSE [store |-> st, success |-> FALSE]

\* sendSuccessMessage: the confirmation the app user posts in the room
Confirmation(room) == Message(room, NoVal, NoVal, "authorized", NoVal)

\* GET of the OAuth callback with the query {error, code, state}: every
\* answer is a 200 whose body carries the status.
get_README(error, code, state, tokenOk) ==
    /\ pc = "idle"
    /\ LET actualUser == IF state # <<>> THEN findUserByState(state) ELSE NoVal
           roomId == IF Len(state) > 1 THEN state[2] ELSE NoVal
           done == handleOAuthCallback_new(store, actualUser, state, tokenOk)
       IN  IF error # NoVal
           THEN /\ resp' = Response(200, NoVal, "Asana authorization failed")
                /\ UNCHANGED <<store, sent>>
           ELSE IF code = NoVal
           THEN /\ resp' = Response(200, NoVal, "Missing required parameter (code)")
                /\ UNCHANGED <<store, sent>>
           ELSE IF actualUser = NoVal
           THEN /\ resp' = Response(200, NoVal, "Unable to determine user identity")
                /\ UNCHANGED <<store, sent>>
           ELSE IF ~roomExists(rooms, roomId)
           THEN /\ resp' = Response(200, NoVal, "Room not found")
                /\ UNCHANGED <<store, sent>>
           ELSE IF done.success
           THEN /\ resp' = Response(200, NoVal, NoVal)
                /\ store' = done.store
                /\ sent' = <<Confirmation(roomId)>>
           ELSE /\ resp' = Response(200, NoVal, "Authorization processing failed")
                /\ UNCHANGED <<store, sent>>
    /\ pc' = "responded"
    /\ before' = store
    /\ UNCHANGED <<settings, rooms, handshakes, issued, req, routed>>

\* Lines 634-690: the records createWebhook leaves for webhook gid.
storeWebhookMapping(st, gid, sender, room, resourceId) ==
    LET webhookMapping == [webhookId |-> gid, resourceId |-> resourceId,
                           roomId |-> room, createdBy |-> sender]
        st1 == removeByAssociation(st, MiscKey("resource_webhook_map_", resourceId))
        st2 == removeByAssociation(st1, MiscKey("resource_", resourceId))
        st3 == createWithAssociation(st2, MiscKey("webhook_", gid), webhookMapping)
        st4 == createWithAssociation(st3, MiscKey("resource_", resourceId), webhookMapping)
    IN  createWithAssociation(st4, MiscKey("resource_webhook_map_", resourceId),
                              [webhookId |-> gid])

\* /asana webhook create <resource_id> of src/commands: the resource must be
\* a project the API returns; the mapping replaces an earlier one.
createWebhook_new(sender, room, resourceId, apiOk) ==
    /\ pc = "idle"
    /\ LET tokenInfo == getAccessTokenForUser_new(store, sender)
           gid == CHOOSE w \in WebhookIds \ issued : TRUE
       IN  IF Defined(tokenInfo) /\ resourceId \in ProjectIds /\ apiOk
              /\ WebhookIds \ issued # {}
           THEN /\ store' = storeWebhookMapping(store, gid, sender, room, resourceId)
                /\ issued' = issued \cup {gid}
           ELSE UNCHANGED <<store, issued>>
    /\ before' = store
    /\ UNCHANGED <<settings, rooms, handshakes, req, resp, routed, sent, pc>>

\* The command that clears the local records whatever the API answered.
deleteWebhook_new_unchecked(sender, webhookId, success) ==
    /\ pc = "idle"
    /\ LET resourceId == Get(readFirst(store, MiscKey("webhook_", webhookId)), "resourceId")
           st1 == removeByAssociation(store, MiscKey("webhook_", webhookId))
           st2 == removeByAssociation(st1, MiscKey("resource_", resourceId))
           st3 == removeByAssociation(st2, MiscKey("resource_webhook_map_", resourceId))
       IN  IF ~Defined(getAccessTokenForUser_new(store, sender))
           THEN /\ store' = store
                /\ resp' = Notification("You have not authorized Asana yet")
           ELSE IF FALSE
           THEN /\ store' = store
                /\ resp' = Notification("Failed to delete webhook " \o webhookId)
           ELSE /\ store' = IF resourceId # NoVal THEN st3 ELSE st1
                /\ resp' = Notification("Webhook " \o webhookId \o " has been successfully deleted")
    /\ pc' = "responded"
    /\ before' = store
    /\ UNCHANGED <<settings, rooms, handshakes, issued, req, routed, sent>>

\* /asana webhook delete <webhook_id> of src/commands
deleteWebhook_new(sender, webhookId, success) ==
    /\ pc = "idle"
    /\ LET resourceId == Get(readFirst(store, MiscKey("webhook_", webhookId)), "resourceId")
           st1 == removeByAssociation(store, MiscKey("webhook_", webhookId))
           st2 == removeByAssociation(st1, MiscKey("resource_", resourceId))
           st3 == removeByAssociation(st2, MiscKey("resource_webhook_map_", resourceId))
       IN  IF ~Defined(getAccessTokenForUser_new(store, sender))
           THEN /\ store' = store
                /\ resp' = Notification("You have not authorized Asana yet")
           ELSE IF ~success
           THEN /\ store' = store
                /\ resp' = Notification("Failed to delete webhook " \o webhookId)
           ELSE /\ store' = IF resourceId # NoVal THEN st3 ELSE st1
                /\ resp' = Notification("Webhook " \o webhookId \o " has been successfully deleted")
    /\ pc' = "responded"
    /\ before' = store
    /\ UNCHANGED <<settings, rooms, handshakes, issued, req, routed, sent>>

\* The app was upgraded from the multi-strategy endpoint after its handshake.
InitMapped == InitWith(HandshakenStore, {Settings(NoVal, NoVal)}, {RoomIds})

NextMapped ==
    \/ \E r \in HandshakeRequests({"s1"}, {NoVal}) \cup DeliveryRequests("s1") : post_README(r)
    \/ finish
    \/ \E error \in {NoVal, "access_denied"}, code \in {NoVal, "c1"},
          state \in OAuthStates, ok \in BOOLEAN :
           get_README(error, code, state, ok)
    \/ \E rm \in RoomIds, rid \in ResourceIds, ok \in BOOLEAN :
           createWebhook_new("u1", rm, rid, ok)
    \/ \E w \in WebhookIds, ok \in BOOLEAN : deleteWebhook_new("u1", w, ok)
    \/ logoutCommand("u1")

SpecMapped == InitMapped /\ [][NextMapped]_vars

\* The store after the multi-strategy endpoint's handshake of secret s1 for
\* webhook w1.
PerWebhookStore ==
    handleWebhookHandshake_part000(EmptyStore,
        Request("s1", NoSig, NoSig, TRUE, Body(<<>>, "w1", "compact"), "ok"))

\* A fresh installation, or one upgraded after a handshake.
InitMappedVerify ==
    \E st \in {EmptyStore, HandshakenStore, PerWebhookStore} :
        InitWith(st, {Settings(NoVal, NoVal)}, {RoomIds})

NextMappedVerify ==
    \/ \E r \in HandshakeRequests(Secrets, {NoVal, "w2"}) \cup ProbeRequests : post_README(r)
    \/ finish

SpecMappedVerify == InitMappedVerify /\ [][NextMappedVerify]_vars

(***************************************************************************)
(* Deduplication: batches of events that differ in the fields of the key,  *)
(* delivered to an installation whose project p1 is mapped to room R1.     *)
(***************************************************************************)
\* A changed or added event of task gid in project p1, by user u1.
KeyEv(action, gid, field) == Ev(action, gid, "task", "p1", "project", NoVal, field)

DedupePool ==
    {KeyEv("changed", "t1", "due_on"),
     KeyEv("changed", "t1", "due_at"),
     KeyEv("changed", "t1", "name"),
     KeyEv("changed", "t1", "notes"),
     KeyEv("changed", "t1", NoVal),
     KeyEv("changed", "t1:name", NoVal),
     KeyEv("added", "t1", "due_on"),
     KeyEv("added", "t1", "name"),
     KeyEv("added", "t1", NoVal),
     KeyEv("changed", NoVal, "due_on"),
     [KeyEv("changed", "t1", "due_on") EXCEPT !.user = NoVal]}

DedupeBatches == UNION {[1..n -> DedupePool] : n \in 0..MaxDedupe}

DedupeStore == storeWebhookMapping(HandshakenStore, "w1", "u1", "R1", "p1")

InitDedupe ==
    /\ InitWith(DedupeStore, {Settings(NoVal, NoVal)}, {RoomIds})

NextDedupe ==
    \/ \E ev \in DedupeBatches \ {<<>>} :
           post_README(Request(NoVal, Hmac("s1", Body(ev, NoVal, "compact")), NoSig, TRUE,
                               Body(ev, NoVal, "compact"), "ok"))
    \/ finish

SpecDedupe == InitDedupe /\ [][NextDedupe]_vars

(***************************************************************************)
(* Properties.  A request is judged in the state its handler leaves:       *)
(* pc = "responded", req the request, before the store at its receipt.     *)
(***************************************************************************)
SecretKeys ==
    {MiscKey("asana_webhook_secret_", g) : g \in Gids}
        \cup {MiscKey("asana_webhook_secret_latest", NoVal), MiscKey("asana_webhook_secret", NoVal)}

\* Every secret the deployment holds: the stored records and the setting.
KnownSecrets(st, cfg) ==
    UNION {{rec.secret : rec \in Range(st[k])} : k \in SecretKeys}
        \cup ({cfg.AsanaWebhookSecret} \ {NoVal})

Delivery == pc = "responded" /\ req.hookSecret = NoVal

Handshake == pc = "responded" /\ req.hookSecret # NoVal

Unsigned == signatureOf(req) = NoSig

NoSecretHeld == KnownSecrets(before, settings) = {}

\* No held secret signs the body that was received.
NoSecretMatches ==
    \A s \in KnownSecrets(before, settings) : signatureOf(req) # Hmac(s, req.body)

\* The verification throws: a signed request without a body, with a secret held.
VerifyThrows == ~req.hasBody /\ ~Unsigned /\ ~NoSecretHeld

Rejected == resp.status = 401 /\ resp.error = "Invalid webhook signature"

\* C1: a POST without X-Hook-Secret is answered 401 'Invalid webhook
\* signature', never 200, when it carries no signature header, when no secret
\* is held, when no held secret's HMAC matches, and when verifying throws.
C1_UnverifiedIsRejected ==
    (Delivery /\ (Unsigned \/ NoSecretHeld \/ NoSecretMatches \/ VerifyThrows)) => Rejected

\* C2: a non-handshake POST whose signature matches no stored secret is
\* answered 401, posts no chat message and creates, updates and removes no
\* persistence record.
C2_UnverifiedChangesNothing ==
    (Delivery /\ NoSecretMatches) => (resp.status = 401 /\ sent = <<>> /\ store = before)

\* C3: a POST with X-Hook-Secret s is answered 200 with the response header
\* X-Hook-Secret = s, and afterwards the record read under 'latest' is s,
\* whether or not a secret was stored before.
C3_HandshakeStoresLatest ==
    Handshake =>
        /\ resp.status = 200
        /\ resp.header = req.hookSecret
        /\ Get(readFirst(store, MiscKey("asana_webhook_secret_latest", NoVal)), "secret")
               = req.hookSecret

\* C4: for every held secret S and payload P, the delivery of P signed
\* HMAC(P, S) is accepted; a delivery whose signature is over another payload
\* or under a secret that is not held is rejected.
C4_ExactlyTheSignedPayload ==
    (Delivery /\ req.hasBody /\ req.sigAsana = NoSig) =>
        ((resp.status = 200) <=>
            \E S \in KnownSecrets(before, settings) : req.sigHook = Hmac(S, req.body))

\* The signature is the HMAC of the received body under a held secret.
CorrectlySigned ==
    \E S \in KnownSecrets(before, settings) : signatureOf(req) = Hmac(S, req.body)

\* The room the mapping registered for resource r names, NoVal without one.
MappedRoom(st, r) == Get(getWebhookMappingByResourceId(st, r), "roomId")

\* C5: once a mapping of resource r to room R is registered, a correctly
\* signed batch of one event {action completed, resource {gid r,
\* resource_type task}} has exactly one message dispatched, to room R and to
\* no other, and its title carries the check mark and 'completed'.
C5_CompletedTaskReachesItsRoom ==
    (/\ Delivery /\ req.hasBody /\ CorrectlySigned
     /\ Len(req.body.events) = 1
     /\ req.body.events[1].action = "completed"
     /\ req.body.events[1].rtype = "task"
     /\ MappedRoom(before, req.body.events[1].gid) \in rooms)
        => /\ Len(sent) = 1
           /\ sent[1].room = MappedRoom(before, req.body.events[1].gid)
           /\ sent[1].title[1] = "white_check_mark"
           /\ sent[1].title[3] = "completed"

\* The rooms the persisted mappings of resource r name: the records under
\* webhook_<id> and resource_<id>.
MappedRooms(st, r) ==
    {rec.roomId : rec \in {x \in UNION {Range(st[MiscKey(p, g)]) :
                                            p \in {"webhook_", "resource_"}, g \in Gids} :
                               Get(x, "resourceId") = r /\ Get(x, "roomId") # NoVal}}

\* The rooms the request's event e was processed in.
RoomsOf(e) == {x.room : x \in {y \in Range(routed) : y.event = e}}

Verified == Delivery /\ req.hasBody /\ CorrectlySigned

\* The events of the request that survive the deduplication.
UniqueEvents == deduplicateEvents(req.body.events)

\* C6: with a persisted mapping of resource r to room R, a verified event
\* whose resource.gid is r is resolved to room R, whatever its resource_type
\* and with no successful API call and no access token.
C6_OwnMappingResolves ==
    Verified =>
        \A i \in 1..Len(UniqueEvents) :
            LET e == UniqueEvents[i]
            IN  (Cardinality(MappedRooms(before, e.gid)) = 1
                 /\ MappedRooms(before, e.gid) \subseteq rooms)
                    => RoomsOf(e) = MappedRooms(before, e.gid)

\* The project ids resolution may try before the parent: those of a task.
ProjectsOf(e) == IF e.rtype = "task" /\ e.gid \in TaskIds THEN Range(TaskProjects[e.gid]) ELSE {}

\* C7: with no mapping for an event's own resource id but a mapping for
\* event.parent.gid, the event is resolved to the parent's room, also when
\* the parent carries a gid and no resource_type.
C7_ParentMappingResolves ==
    Verified =>
        \A i \in 1..Len(UniqueEvents) :
            LET e == UniqueEvents[i]
            IN  (/\ MappedRooms(before, e.gid) = {}
                 /\ \A p \in ProjectsOf(e) : MappedRooms(before, p) = {}
                 /\ e.parent # NoVal
                 /\ Cardinality(MappedRooms(before, e.parent)) = 1
                 /\ MappedRooms(before, e.parent) \subseteq rooms)
                    => RoomsOf(e) = MappedRooms(before, e.parent)

\* No resolution step has a mapping for e: not its resource id, not a
\* project of its task, not its parent id.
Unmapped(e) ==
    /\ MappedRooms(before, e.gid) = {}
    /\ \A p \in ProjectsOf(e) : MappedRooms(before, p) = {}
    /\ e.parent # NoVal => MappedRooms(before, e.parent) = {}

\* C8: when no resolution step finds a mapped room for an event, no message
\* is posted to any room for it: no fallback to the first webhook record
\* found, the latest room record or the room 'general'.
C8_UnresolvedIsDropped ==
    Verified =>
        \A i \in 1..Len(UniqueEvents) :
            Unmapped(UniqueEvents[i]) =>
                /\ RoomsOf(UniqueEvents[i]) = {}
                /\ \A m \in Range(sent) : m.event # UniqueEvents[i]

\* C9: within one request no room receives two messages for the same unique
\* event, also when several ids of the batch resolve to the same room.
C9_OncePerRoomAndEvent ==
    pc = "responded" =>
        \A i, j \in 1..Len(sent) :
            (sent[i].room = sent[j].room /\ sent[i].event = sent[j].event) => i = j

\* Two project ids of the batch are mapped to one room, which got a message.
C9_TwoIdsOneRoom ==
    /\ Verified
    /\ sent # <<>>
    /\ LET ids == Range(collectProjectIds(UniqueEvents,
                       Get(getAccessTokenForUser_new(before, AppUser), "access_token"), req.api))
       IN  \E p, q \in ids : /\ p # q
                              /\ MappedRoom(before, p) \in rooms
                              /\ MappedRoom(before, p) = MappedRoom(before, q)

\* The room of the first step of the order that finds one: the resource id
\* (direct, then through its webhook id), the projects of a task whose
\* details are to be had, the parent id.
ExpectedRoom(e) ==
    LET own == Get(findWebhookConfigByResourceId(before, e.gid), "roomId")
        details == getTaskDetails_part000(before, settings, e.gid, e.webhook, req.api)
        viaProjects == IF e.rtype = "task" /\ Defined(details)
                       THEN firstProjectRoom(before, rooms, details.projects) ELSE NoVal
        viaParent == Get(findWebhookConfigByResourceId(before, e.parent), "roomId")
    IN  IF e.gid # NoVal /\ own \in rooms THEN own
        ELSE IF viaProjects # NoVal THEN viaProjects
        ELSE IF e.parent # NoVal /\ viaParent \in rooms THEN viaParent
        ELSE NoVal

\* C10: the lookups are tried in the order resource id, resource id through
\* its webhook id, the project ids of a task, the parent id, and the event is
\* sent to the room of the earliest step that finds one.
C10_EarliestStepWins ==
    Verified =>
        \A i \in 1..Len(UniqueEvents) :
            ExpectedRoom(UniqueEvents[i]) # NoVal
                => RoomsOf(UniqueEvents[i]) = {ExpectedRoom(UniqueEvents[i])}

\* C11: after any sequence of handshakes a delivery is accepted whenever its
\* signature is the HMAC of the body under a secret the store still holds:
\* the latest one, the one of a webhook id, or the legacy one.
C11_AnyHeldSecretVerifies ==
    (Delivery /\ req.hasBody /\ req.body.form = "compact" /\ CorrectlySigned)
        => resp.status = 200

\* The events the endpoint posted a message for, in order.
Posted == [i \in 1..Len(sent) |-> sent[i].event]

\* C12: dedupe is idempotent and never lengthens its input.
C12_DedupeIdempotent ==
    Verified =>
        /\ deduplicateEvents(deduplicateEvents(req.body.events))
               = deduplicateEvents(req.body.events)
        /\ Len(deduplicateEvents(req.body.events)) <= Len(req.body.events)
        /\ deduplicateEvents(Posted) = Posted
        /\ Len(Posted) <= Len(req.body.events)

\* A batch that repeats a key was delivered and posted.
C12_RepeatedKeyDelivered ==
    /\ Verified
    /\ Len(req.body.events) = MaxDedupe
    /\ \A i \in 1..Len(req.body.events) :
           eventKey(req.body.events[i]) = eventKey(req.body.events[1])
    /\ Len(Posted) = 1

\* The key of an event as a tuple of its four parts.
KeyTuple(e) ==
    <<IF e.user # NoVal THEN e.user ELSE "unknown",
      e.action,
      IF e.gid # NoVal THEN e.gid ELSE "unknown",
      IF e.action = "changed" /\ e.field # NoVal
      THEN (IF e.field \in {"due_on", "due_at"} THEN "due_on" ELSE e.field)
      ELSE NoVal>>

\* The events of E no earlier event of E shares its key tuple with, in order.
RECURSIVE FirstOfEachKey(_, _)
FirstOfEachKey(E, i) ==
    IF i > Len(E) THEN <<>>
    ELSE (IF \E j \in 1..(i - 1) : KeyTuple(E[j]) = KeyTuple(E[i]) THEN <<>> ELSE <<E[i]>>)
             \o FirstOfEachKey(E, i + 1)

\* C13: dedupe returns the subsequence of its input that keeps an event if
\* and only if no earlier event has the same key (user.gid or 'unknown',
\* action, resource.gid or 'unknown', normalized change field); events whose
\* key tuples differ are never duplicates of each other.
C13_FirstOfEachKeyKept ==
    Verified =>
        /\ deduplicateEvents(req.body.events) = FirstOfEachKey(req.body.events, 1)
        /\ Posted = FirstOfEachKey(req.body.events, 1)

\* A batch of two events of one user on one resource with the same action.
PairOf(action) ==
    /\ Verified
    /\ Len(req.body.events) = 2
    /\ req.body.events[1].user = req.body.events[2].user
    /\ req.body.events[1].gid = req.body.events[2].gid
    /\ req.body.events[1].action = action
    /\ req.body.events[2].action = action

DueFields == {"due_on", "due_at"}

\* C14: two changed events of one user on one resource whose change fields
\* are due_on and due_at, in either order, dedupe to the first of the two;
\* two changed events that differ in another change field are both kept; for
\* another action the change field is no part of the key.
C14_DueFieldsCollapse ==
    LET E == req.body.events
    IN  /\ (PairOf("changed") /\ {E[1].field, E[2].field} = DueFields)
               => (deduplicateEvents(E) = <<E[1]>> /\ Posted = <<E[1]>>)
        /\ (PairOf("changed") /\ E[1].field # E[2].field
                /\ ~({E[1].field, E[2].field} \subseteq DueFields))
               => (deduplicateEvents(E) = E /\ Posted = E)
        /\ PairOf("added") => (deduplicateEvents(E) = <<E[1]>> /\ Posted = <<E[1]>>)

\* A due_at change followed by a due_on change of the same task was posted.
C14_DuePairDelivered ==
    /\ PairOf("changed")
    /\ req.body.events[1].field = "due_at"
    /\ req.body.events[2].field = "due_on"
    /\ Len(Posted) = 1

\* C15: when a detail lookup (task, project or user) returns null or fails
\* for an event whose room was resolved, a notification for that event is
\* still posted to that room; the event is not skipped.
C15_PostedWithoutDetails ==
    Verified =>
        \A i \in 1..Len(UniqueEvents) :
            \A R \in RoomsOf(UniqueEvents[i]) :
                \E m \in Range(sent) : m.event = UniqueEvents[i] /\ m.room = R

\* The records kept under webhook_<id> for resource r.
WebhookRecordsOf(st, r) ==
    {h \in UNION {Range(st[MiscKey("webhook_", w)]) : w \in WebhookIds} :
        Get(h, "resourceId") = r}

\* C16: after any sequence of webhook create and webhook delete commands a
\* resource id has at most one record under resource_<resourceId>, and the
\* records resource_<resourceId>, resource_webhook_map_<resourceId> and
\* webhook_<webhookId> that exist for the resource agree on the webhook id
\* and the room.
C16_OneCanonicalMapping ==
    \A r \in ResourceIds :
        /\ Len(store[MiscKey("resource_", r)]) <= 1
        /\ \A c \in Range(store[MiscKey("resource_", r)]) :
               /\ \A m \in Range(store[MiscKey("resource_webhook_map_", r)]) :
                      m.webhookId = c.webhookId
               /\ \A h \in WebhookRecordsOf(store, r) :
                      h.webhookId = c.webhookId /\ h.roomId = c.roomId

\* A step that removes the record webhook_<w> of a registered webhook: the
\* webhook delete command has succeeded for w.
Deleted(w) ==
    /\ Defined(readFirst(store, MiscKey("webhook_", w)))
    /\ store'[MiscKey("webhook_", w)] = <<>>

\* No record of webhook w is left under the keys of resource r.
NoRecordOf(st, w, r) ==
    /\ st[MiscKey("webhook_", w)] = <<>>
    /\ \A c \in Range(st[MiscKey("resource_", r)]) : Get(c, "webhookId") # w
    /\ \A m \in Range(st[MiscKey("resource_webhook_map_", r)]) : Get(m, "webhookId") # w

\* C17: after webhook delete <id> succeeds for a webhook that webhook create
\* registered, none of its records webhook_<id>, resource_<resourceId> and
\* resource_webhook_map_<resourceId> remains in persistence.
C17_DeleteRemovesAllRecords ==
    [][\A w \in WebhookIds :
           Deleted(w) =>
               NoRecordOf(store', w, readFirst(store, MiscKey("webhook_", w)).resourceId)]_vars

\* C18: after any sequence of OAuth callbacks, webhook commands and logouts
\* a user's association holds at most one record, the token of the user's
\* latest authorization, and getAccessTokenForUser returns that record and
\* never another kind of record kept under the user's key.
C18_OneTokenPerUser ==
    \A u \in UserIds \cup {AppUser, GhostUser} :
        /\ Len(store[UserKey(u)]) <= 1
        /\ \A rec \in Range(store[UserKey(u)]) : Get(rec, "access_token") # NoVal
        /\ store[UserKey(u)] # <<>> =>
               /\ getAccessTokenForUser_old(store, u) = store[UserKey(u)][1]
               /\ getAccessTokenForUser_new(store, u) = store[UserKey(u)][1]

(***************************************************************************)
(* The multi-strategy endpoint: the token of the enrichment calls.  The    *)
(* old OAuth endpoint resolves the user of the state and falls back to the *)
(* app user; Asana issues a token of its own for every authorization.      *)
(***************************************************************************)
OAuthTokens == {"tokU", "tokA"}

ApiKeys == {NoVal, "key1"}

\* AsanaOAuthEndpoint.get of src/asana-integration: findUserByState, else
\* the app user, then handleOAuthCallback for that user.
get_old(stateUser, token, tokenOk) ==
    LET actualUser == IF stateUser \in UserIds THEN stateUser ELSE AppUser
    IN  handleOAuthCallback_old(actualUser, token, tokenOk)

TokenPool ==
    {Ev("completed", "t1", "task", NoVal, NoVal, "w1", NoVal),
     Ev("completed", "t1", "task", NoVal, NoVal, NoVal, NoVal),
     Ev("added", "p1", "project", NoVal, NoVal, "w2", NoVal)}

TokenRequests ==
    {Request(NoVal, Hmac("s1", Body(ev, NoVal, "compact")), NoSig, TRUE,
             Body(ev, NoVal, "compact"), "ok") :
        ev \in UNION {[1..n -> TokenPool] : n \in 1..MaxBatch}}

InitTokens ==
    InitWith(HandshakenStore, {Settings(NoVal, k) : k \in ApiKeys}, {RoomIds})

NextTokens ==
    \/ \E r \in TokenRequests : post_part000(r)
    \/ finish
    \/ \E u \in UserIds \cup {GhostUser}, t \in OAuthTokens, ok \in BOOLEAN : get_old(u, t, ok)
    \/ \E room \in RoomIds, ok \in BOOLEAN : createWebhook_old("u1", room, "p1", ok)
    \/ logoutCommand("u1")

SpecTokens == InitTokens /\ [][NextTokens]_vars

\* The sources of getAuthHeaders, one by one.
webhookTokenOf(st, webhookId) ==
    IF webhookId = NoVal THEN NoVal
    ELSE Get(readFirst(st, MiscKey("webhook_token_", webhookId)), "access_token")

scannedTokens(st) ==
    {rec.access_token : rec \in {r \in Range(readByAssociation(st, MiscKey(NoVal, NoVal))) :
                                    Get(r, "access_token") # NoVal}}

adminOrAppTokens(st) ==
    {Get(readFirst(st, MiscKey("admin_token", NoVal)), "access_token"),
     Get(getAccessTokenForUser_old(st, AppUser), "access_token")} \ {NoVal}

\* The token the enrichment calls of event e carry.
UsedToken(e) == getAuthHeaders(before, settings, e.webhook)

\* C19: the token of an enrichment call is the first that exists of: the
\* token stored for the event's webhook id, any stored token, the admin or
\* app-user token, the API key of the settings.
C19_TokenPriority ==
    (pc = "responded" /\ Verified) =>
        \A e \in Range(UniqueEvents) :
            IF webhookTokenOf(before, e.webhook) # NoVal
            THEN UsedToken(e) = webhookTokenOf(before, e.webhook)
            ELSE IF scannedTokens(before) # {}
            THEN UsedToken(e) \in scannedTokens(before)
            ELSE IF adminOrAppTokens(before) # {}
            THEN UsedToken(e) \in adminOrAppTokens(before)
            ELSE UsedToken(e) = settings.asana_api_key

\* The callback the claim is about: a code, no error, a token endpoint that
\* answers 200 and a state whose first part is an existing user (and whose
\* room, when the state carries one, exists).
Authorizing(error, code, state, tokenOk) ==
    /\ error = NoVal /\ code # NoVal /\ tokenOk
    /\ state # <<>> /\ state[1] \in UserIds
    /\ Len(state) = 3 => state[2] \in rooms

\* C20: a callback with a code, no error, a 200 of the token endpoint and a
\* state <userId>_<roomId>_<random> or <userId>_<random> of an existing user
\* leaves the token under that user and posts a confirmation; a callback
\* with an error, without a code or without a 200 writes no record.
C20_CallbackPersistsToken ==
    [][\A error \in {NoVal, "access_denied"}, code \in {NoVal, "c1"},
         state \in OAuthStates, tokenOk \in BOOLEAN :
           get_README(error, code, state, tokenOk) =>
               /\ Authorizing(error, code, state, tokenOk) =>
                      /\ Get(readFirst(store', UserKey(state[1])), "access_token") # NoVal
                      /\ \E m \in Range(sent') : m = Confirmation(m.room)
               /\ (error # NoVal \/ code = NoVal \/ ~tokenOk) => store' = store]_vars

\* The user holds a token of their own: the first record of the user's
\* association carries an access_token.
HasStoredToken(st, u) == Get(readFirst(st, UserKey(u)), "access_token") # NoVal

\* tasks, projects and webhook answer with the not-authorized notice exactly
\* when getAccessTokenForUser finds nothing for the sender.
Refused(st, u) == ~Defined(getAccessTokenForUser_old(st, u))

\* C21: after /asana logout by a user who had a stored token,
\* getAccessTokenForUser returns null for that user and the tasks, projects
\* and webhook commands are refused; a logout by a user without a stored
\* token changes no persistence record.
C21_LogoutRevokes ==
    [][\A u \in UserIds :
           logoutCommand(u) =>
               IF HasStoredToken(store, u)
               THEN /\ getAccessTokenForUser_old(store', u) = Undefined
                    /\ Refused(store', u)
               ELSE store' = store]_vars

\* The ids an event resolves by: its resource, its parent and, for a task,
\* the projects of the task.
OwnIds(e) == ({e.gid, e.parent} \ {NoVal}) \cup ProjectsOf(e)

OwnRooms(st, e) == UNION {MappedRooms(st, id) : id \in OwnIds(e)}

\* C22: an event is posted only to a room that its own resource id, a project
\* of its own task or its own parent id resolves to, never to a room matched
\* only through another event of the batch.
C22_OnlyOwnRooms ==
    Verified => \A m \in Range(sent) : m.room \in OwnRooms(before, m.event)

\* C23: a request carrying X-Hook-Secret is answered by the handshake alone,
\* the secret echoed whatever the request is signed with and no event of its
\* body processed; for every other request nothing is resolved or posted
\* unless its signature was verified.
C23_HandshakeThenVerification ==
    /\ Handshake =>
           /\ resp = Response(200, req.hookSecret, NoVal)
           /\ routed = <<>> /\ sent = <<>>
    /\ (Delivery /\ (routed # <<>> \/ sent # <<>>)) => resp.status = 200

(***************************************************************************)
(* The multi-strategy endpoint when posting a message throws.              *)
(***************************************************************************)
ThrowPool ==
    {Ev("added", "p1", "project", NoVal, NoVal, "w1", NoVal),
     Ev("completed", "t1", "task", NoVal, NoVal, "w1", NoVal),
     Ev("added", "x1", "section", "p2", NoVal, NoVal, NoVal)}

ThrowBatches == UNION {[1..n -> ThrowPool] : n \in 1..MaxBatch}

\* Signed deliveries during which posting throws for no event or for one
\* event of the batch.
ThrowRequests ==
    {Throwing(Request(NoVal, Hmac("s1", Body(ev, NoVal, "compact")), NoSig, TRUE,
                      Body(ev, NoVal, "compact"), "ok"), T) :
        ev \in ThrowBatches, T \in {{}} \cup {{e} : e \in ThrowPool}}

InitThrows == InitWith(HandshakenStore, {Settings(NoVal, NoVal)}, {RoomIds})

NextThrows ==
    \/ \E r \in ThrowRequests : post_part000(r)
    \/ finish
    \/ \E ok \in BOOLEAN : handleOAuthCallback_old("u1", "tokU", ok)
    \/ \E room \in RoomIds, ok \in BOOLEAN : createWebhook_old("u1", room, "p1", ok)

SpecThrows == InitThrows /\ [][NextThrows]_vars

\* The events the same request posts when nothing throws.
PostedUndisturbed ==
    {m.event : m \in Range(processEvents_part000(before, settings, rooms,
                                                  req.body.events, req.api, {}).sent)}

\* C24: within one verified batch a failure while processing one event never
\* keeps the other events of the batch from being processed and posted, and
\* the request is answered 200 {success: true}.
C24_FailureIsContained ==
    Verified =>
        /\ resp = Response(200, NoVal, NoVal)
        /\ \A e \in PostedUndisturbed \ req.throws : \E m \in Range(sent) : m.event = e

StatusColor(e) ==
    IF e.action = "removed" THEN "#FC636B"
    ELSE IF e.action = "changed" THEN "#2196F3"
    ELSE IF e.rtype = "section" THEN "#9966CC"
    ELSE "#36a64f"

\* C25: the attachment colour follows the status table for every resource
\* type and action: green for completed and added, red for removed, blue for
\* changed, purple for section events that are neither removed nor changed.
C25_ColourFollowsStatus ==
    Verified =>
        \A m \in Range(sent) :
            (/\ m.event.rtype \in {"task", "project", "section"}
             /\ m.event.action \in {"completed", "added", "removed", "changed"})
                => m.color = StatusColor(m.event)

(***************************************************************************)
(* src/README.md: handshakes that run concurrently.  handleWebhookHandshake*)
(* awaits two writes; another request runs between them.                   *)
(***************************************************************************)
\* A store that also holds the record asana_webhook_secret an earlier
\* revision left (the multi-strategy endpoint reads it as the old secret).
LegacyStore ==
    createWithAssociation(HandshakenStore, MiscKey("asana_webhook_secret", NoVal),
                          [secret |-> "s1"])

\* await persis.updateByAssociation(latestSecretAssociation, {secret})
handshake_latest(h, hookSecret) ==
    /\ handshakes[h].step = "idle"
    /\ store' = updateByAssociation(store, MiscKey("asana_webhook_secret_latest", NoVal),
                                    [secret |-> hookSecret], FALSE)
    /\ handshakes' = [handshakes EXCEPT ![h] = [secret |-> hookSecret, step |-> "latest"]]
    /\ UNCHANGED <<before, settings, rooms, issued, req, resp, routed, sent, pc>>

\* await persis.updateByAssociation(asana_webhook_secret, {secret})
handshake_legacy(h) ==
    /\ handshakes[h].step = "latest"
    /\ store' = updateByAssociation(store, MiscKey("asana_webhook_secret", NoVal),
                                    [secret |-> handshakes[h].secret], FALSE)
    /\ handshakes' = [handshakes EXCEPT ![h].step = "completed"]
    /\ UNCHANGED <<before, settings, rooms, issued, req, resp, routed, sent, pc>>

\* The echo of the secret has been returned; the request is over.
handshake_return(h) ==
    /\ handshakes[h].step = "completed"
    /\ handshakes' = [handshakes EXCEPT ![h] = Idle]
    /\ UNCHANGED <<store, before, settings, rooms, issued, req, resp, routed, sent, pc>>

InitRace ==
    InitWith(LegacyStore, {Settings(NoVal, NoVal)}, {RoomIds})

NextRace ==
    \/ \E h \in HandshakeIds, s \in Secrets \cup {ForeignSecret} : handshake_latest(h, s)
    \/ \E h \in HandshakeIds : handshake_legacy(h)
    \/ \E h \in HandshakeIds : handshake_return(h)

SpecRace == InitRace /\ [][NextRace]_vars

secretOf(st, name) == Get(readFirst(st, MiscKey(name, NoVal)), "secret")

C27_DeliveryWritesNothing ==
    (Verified /\ resp.status = 200) => store = before

\* The records resource_<r> and resource_webhook_map_<r> name a webhook
\* other than w.
BelongsToOther(st, w, r) ==
    /\ Get(readFirst(st, MiscKey("resource_", r)), "webhookId") \notin {NoVal, w}
    /\ Get(readFirst(st, MiscKey("resource_webhook_map_", r)), "webhookId") \notin {NoVal, w}

\* C28: webhook delete <w1> removes only records that belong to w1: when
\* webhook create ran twice for a resource and its records name the later
\* webhook w2, resource_<id> and resource_webhook_map_<id> are left as they
\* are and still resolve to w2 and its room.
C28_DeleteLeavesOtherWebhook ==
    [][\A w \in WebhookIds, r \in ProjectIds :
           (Deleted(w) /\ BelongsToOther(store, w, r)) =>
               /\ store'[MiscKey("resource_", r)] = store[MiscKey("resource_", r)]
               /\ store'[MiscKey("resource_webhook_map_", r)]
                      = store[MiscKey("resource_webhook_map_", r)]]_vars

\* C30: when the API refuses or fails the deletion during webhook delete
\* <id>, no local record is removed: webhook_<id>, resource_<resourceId> and
\* resource_webhook_map_<resourceId> are after the command what they were
\* before it, and the user is told the deletion failed.
C30_FailedDeleteKeepsRecords ==
    [][\A u \in UserIds, w \in WebhookIds :
           (deleteWebhook_new(u, w, FALSE) /\ Defined(getAccessTokenForUser_new(store, u))) =>
               /\ store' = store
               /\ resp' = Notification("Failed to delete webhook " \o w)]_vars

\* The deletion of an existing webhook has just failed: its three records
\* are in the store.
C30_FailedDeleteOfMappedWebhook ==
    /\ pc = "responded"
    /\ \E w \in WebhookIds :
           /\ resp = Notification("Failed to delete webhook " \o w)
           /\ Get(readFirst(store, MiscKey("webhook_", w)), "resourceId") # NoVal
           /\ LET r == readFirst(store, MiscKey("webhook_", w)).resourceId
              IN  /\ Get(readFirst(store, MiscKey("resource_", r)), "webhookId") = w
                  /\ Get(readFirst(store, MiscKey("resource_webhook_map_", r)), "webhookId") = w

====
